---- MODULE Spec2Model ----
(***************************************************************************)
(* The resilient vendor-call pipeline of the gateway: the send_message     *)
(* endpoint (idempotency check, handle_message, cache write), the          *)
(* timeout/retry/fallback caller, the persistence of messages and usage    *)
(* events, and the idempotency_keys table with its expiry.                 *)
(*                                                                         *)
(* Each logical send is an independent request worker; the tables are      *)
(* shared.  A worker's step ends at each point where the request can be    *)
(* overtaken by another one (a database statement, a vendor call).         *)
(***************************************************************************)
EXTENDS Integers, Sequences, FiniteSets, TLC

\* ---------------------------------------------------------------- bounds
NSends == 2
MaxClock == 1
MaxTokens == 6
MaxAttemptNumber == 8

\* ------------------------------------------------------ program constants
max_attempts == 3
ttl_hours == 24
wait_multiplier == 1
wait_min == 1
wait_max == 10
ms_per_second == 1000

\* The clock counts days of 24 hours.
ttl_days == ttl_hours \div 24

Sends == 1..NSends
Tenants == {"tA", "tB"}
NoKey == "none"
Keys == {"k1"}
Contents == {"hello", "invoice"}
NoProvider == "none"

\* The owners of the agents the caller is exercised with: the tenants of
\* the pipeline and tC, whose agent names one provider twice (the agent
\* creation form offers both selects the same providers).
AgentOwners == Tenants \cup {"tC"}

\* Agent configuration of each tenant (agents table): tA falls back from
\* vendorA to vendorB and has the invoice tool enabled, tB uses vendorB
\* alone, tC falls back from vendorA to vendorA.
Agent(t) ==
  IF t = "tA"
    THEN [primary_provider |-> "vendorA", fallback_provider |-> "vendorB",
          enabled_tools |-> {"invoice_lookup"}]
    ELSE IF t = "tC"
      THEN [primary_provider |-> "vendorA", fallback_provider |-> "vendorA",
            enabled_tools |-> {}]
      ELSE [primary_provider |-> "vendorB", fallback_provider |-> NoProvider,
            enabled_tools |-> {}]

NoRequest == [tenant |-> "none", key |-> NoKey, content |-> "none"]
NoResponse == [id |-> 0, reply_to |-> "none", provider_used |-> NoProvider]

VARIABLES
  pc,               \* position of each send in the request flow
  req,              \* the inbound request of each send
  cached,           \* what the idempotency lookup returned
  response,         \* the response returned to the caller
  error,            \* the failure returned to the caller
  call,             \* state of the resilient caller of each send
  provider_calls,   \* audit records of each send (one correlation id each)
  session,          \* rows added to the request's database session, uncommitted
  messages,         \* messages table
  usage_events,     \* usage_events table
  idempotency_keys, \* idempotency_keys table
  tool_executions,  \* tool_executions table
  store_ops,        \* reads and writes each send made on idempotency_keys
  seen,             \* what the table and the other sends looked like at lookup
  clock,            \* days
  resilient_call,   \* one logical vendor call followed attempt by attempt
  billing,          \* one cost calculation: its arguments and its result
  auth,             \* the dashboard's login state in one browser tab
  chat,             \* the chat hook of the dashboard's chat page
  voice             \* the voice recorder component

\* The request pipeline.
pipeline_vars == <<pc, req, cached, response, error, call, provider_calls,
                   session, messages, usage_events, idempotency_keys,
                   tool_executions, store_ops, seen, clock>>

\* The dashboard (React frontend).
frontend_vars == <<auth, chat, voice>>

\* The caller, the billing calculator and the dashboard taken on their own.
unit_vars == <<resilient_call, billing, frontend_vars>>

vars == <<pipeline_vars, unit_vars>>

\* ------------------------------------------------------ idempotency store

\* Variant: the absent key is treated as a key like any other.
HasKey_Always(key) == TRUE

\* `if idempotency_key:` -- a request without the header carries no key.
HasKey(key) == key # NoKey

\* A row counts only until its expiry time.
Expired(row) == row.expires_at <= clock

\* Variant: the lookup filters by key only.
LookupRows_AnyTenant(key, tenant_id) ==
  {row \in idempotency_keys : row.key = key /\ ~Expired(row)}

\* get_cached_response(idempotency_key, tenant_id): the unexpired row of this
\* tenant under this key.
LookupRows(key, tenant_id) ==
  {row \in idempotency_keys :
     row.key = key /\ row.tenant_id = tenant_id /\ ~Expired(row)}

get_cached_response(key, tenant_id) ==
  IF LookupRows(key, tenant_id) = {}
    THEN NoResponse
    ELSE (CHOOSE row \in LookupRows(key, tenant_id) : TRUE).response

\* Variant: the write replaces instead of inserting, no row is refused.
PrimaryKeyConflict_Never(key, tenant_id) == FALSE

\* key VARCHAR(255) PRIMARY KEY: an INSERT is refused when a row with the
\* same key is in the table, whoever owns it and expired or not.
PrimaryKeyConflict(key, tenant_id) ==
  \E row \in idempotency_keys : row.key = key

IdempotencyRow(key, tenant_id, resp) ==
  [key |-> key, tenant_id |-> tenant_id, response |-> resp,
   created_at |-> clock, expires_at |-> clock + ttl_days]

\* ------------------------------------------------------- resilient caller

NoCall == [role |-> "none", attempt_number |-> 0, requests |-> <<>>,
           provider_used |-> NoProvider]

ProviderOf(t, role) ==
  IF role = "primary" THEN Agent(t).primary_provider
                      ELSE Agent(t).fallback_provider

\* The record of one attempt: a failed attempt that will be retried is
\* `retry`, the last failed one `error`, a successful one `success`.
AttemptStatus(ok, n) ==
  IF ok THEN "success" ELSE IF n < max_attempts THEN "retry" ELSE "error"

\* Attempt numbers of the fallback provider follow its `fallback` marker,
\* which takes number 1.
RecordNumber(role, n) == IF role = "fallback" THEN n + 1 ELSE n

AttemptRecord(t, role, n, ok) ==
  [provider |-> ProviderOf(t, role), role |-> role,
   attempt_number |-> RecordNumber(role, n), status |-> AttemptStatus(ok, n)]

FallbackMarker(t) ==
  [provider |-> Agent(t).fallback_provider, role |-> "fallback",
   attempt_number |-> 1, status |-> "fallback"]

\* Variant: the fallback is tried on the first failure of the primary.
UseFallback_Eager(t, role, ok, n) ==
  /\ role = "primary"
  /\ ~ok
  /\ Agent(t).fallback_provider # NoProvider

\* call_with_fallback: the fallback is tried when the primary raised and a
\* fallback is configured.
UseFallback(t, role, ok, n) ==
  /\ role = "primary"
  /\ ~ok
  /\ n = max_attempts
  /\ Agent(t).fallback_provider # NoProvider

\* Variant: one more attempt is allowed before the retrying stops.
RetryAgain_OnceMore(n) == n < max_attempts + 1

\* stop=stop_after_attempt(3): a failed attempt is retried while fewer than
\* max_attempts attempts were made.
RetryAgain(n) == n < max_attempts

\* Variant: the switch to the fallback leaves no trace in the audit.
LogFallback_Skipped(log, t) == log

\* log_fallback_event(): the `fallback` record is appended to the audit.
LogFallback(log, t) == Append(log, FallbackMarker(t))

RECURSIVE Pow2(_)
Pow2(e) == IF e = 0 THEN 1 ELSE 2 * Pow2(e - 1)

MinOf(a, b) == IF a < b THEN a ELSE b
MaxOf(a, b) == IF a > b THEN a ELSE b

\* Variant: the exponent is the attempt number itself.
wait_exponential_Doubled(attempt_number) ==
  MaxOf(wait_min, MinOf(wait_multiplier * Pow2(attempt_number), wait_max))

\* wait_exponential(multiplier=1, min=1, max=10), in seconds, after the
\* attempt with the given number failed:
\* max(min, min(multiplier * 2^(attempt_number - 1), max)).
wait_exponential(attempt_number) ==
  MaxOf(wait_min,
        MinOf(wait_multiplier * Pow2(attempt_number - 1), wait_max))

\* The retry-after values a rate-limited vendor may state, in ms: the one
\* of the VendorB adapter and one beyond the backoff cap.
RetryAfterMs == {2000, 12000}

NoError == [type |-> "none", retry_after_ms |-> 0]
Success == [type |-> "success", retry_after_ms |-> 0]

\* What one request to a provider can end in: the response, the failure
\* mode of the adapter, or the 10 s timeout.
VendorOutcomes(provider) ==
  {Success, [type |-> "VendorCallTimeout", retry_after_ms |-> 0]}
  \cup (IF provider = "vendorA"
          THEN {[type |-> "VendorAHTTPError", retry_after_ms |-> 0]}
          ELSE {[type |-> "VendorBRateLimitError", retry_after_ms |-> ra] :
                  ra \in RetryAfterMs})

\* Special handling of rate limits in the failed attempt:
\*   if isinstance(e, VendorBRateLimitError):
\*       await asyncio.sleep(e.retry_after_ms / 1000)
RateLimitSleep(e) ==
  IF e.type = "VendorBRateLimitError"
    THEN <<[kind |-> "sleep", cause |-> "retry_after", role |-> "none",
            attempt_number |-> 0, result |-> NoError,
            ms |-> e.retry_after_ms]>>
    ELSE <<>>

\* The wait tenacity makes before the next attempt.
BackoffSleep(n) ==
  <<[kind |-> "sleep", cause |-> "backoff", role |-> "none",
     attempt_number |-> 0, result |-> NoError,
     ms |-> wait_exponential(n) * ms_per_second]>>

\* The n-th request to the provider of `role` and what it ended in.
RequestSent(role, n, outcome) ==
  <<[kind |-> "request", cause |-> "none", role |-> role,
     attempt_number |-> n, result |-> outcome, ms |-> 0]>>

\* Variant: the failure keeps the error of the fallback alone.
AllVendorsFailed_LastOnly(primary_error, fallback_error) ==
  [type |-> "AllVendorsFailed",
   primary_error |-> IF fallback_error = NoError THEN primary_error
                                                 ELSE NoError,
   fallback_error |-> fallback_error]

\* raise AllVendorsFailed(primary_error) /
\* raise AllVendorsFailed(primary_error, fallback_error)
AllVendorsFailed(primary_error, fallback_error) ==
  [type |-> "AllVendorsFailed", primary_error |-> primary_error,
   fallback_error |-> fallback_error]

NoFailure ==
  [type |-> "none", primary_error |-> NoError, fallback_error |-> NoError]

NoResilientCall ==
  [status |-> "idle", tenant |-> "none", role |-> "none",
   attempt_number |-> 0, events |-> <<>>, records |-> <<>>,
   primary_error |-> NoError, provider_used |-> NoProvider,
   failure |-> NoFailure]

\* ---------------------------------------------------------------- billing

\* PRICING, per 1K tokens, in millionths of a dollar:
\* Decimal("0.002") is 2000, Decimal("0.003") is 3000.
PRICING ==
  [vendorA |-> [input_tokens |-> 2000, output_tokens |-> 2000],
   vendorB |-> [input_tokens |-> 3000, output_tokens |-> 3000]]

Providers == DOMAIN PRICING

\* Variant: the amount is kept to five fractional digits.
quantize_FiveDigits(thousandths) == (thousandths \div 10000) * 10

\* .quantize(Decimal('0.000001')) of an amount given in thousandths of a
\* millionth: to the nearest millionth, a tie to the even neighbour (the
\* rounding of the decimal context).
quantize(thousandths) ==
  LET q == thousandths \div 1000
      r == thousandths % 1000
  IN  IF 2 * r > 1000 \/ (2 * r = 1000 /\ q % 2 = 1) THEN q + 1 ELSE q

\* calculate_cost(provider, tokens_in, tokens_out), in millionths of a
\* dollar; the two products are exact decimals.
calculate_cost(provider, tokens_in, tokens_out) ==
  LET pricing == PRICING[provider]
      input_cost == tokens_in * pricing.input_tokens
      output_cost == tokens_out * pricing.output_tokens
  IN  quantize(input_cost + output_cost)

\* Token counts of a normalised vendor response (both adapters report 100
\* input and 150 output tokens).
NormalizedTokens == [tokens_in |-> 100, tokens_out |-> 150]

NoBilling == [provider |-> NoProvider, tokens_in |-> 0, tokens_out |-> 0,
              cost_usd |-> -1]

\* ------------------------------------------------------------ persistence

UserMessage(s) ==
  [id |-> s, seq |-> 1, role |-> "user", provider_used |-> NoProvider,
   correlation_id |-> s, created_at |-> clock]

AssistantMessage(s) ==
  [id |-> s, seq |-> 1, role |-> "assistant",
   provider_used |-> call[s].provider_used, correlation_id |-> s,
   created_at |-> clock]

\* A send is in flight from its cache miss until it returns.
InFlight(s) ==
  pc[s] \in {"VendorCalling", "ToolEvaluating", "Persisting",
             "CostCalculated", "CacheWriting"}

NothingSeen == [inflight |-> {}, expired |-> FALSE]

\* What send s finds at its lookup: the sends of the same tenant and key
\* that are being processed, and whether an expired row of its own is
\* still in the table.
SeenAtLookup(s) ==
  [inflight |-> {o \in Sends \ {s} :
                   /\ InFlight(o)
                   /\ req[o].tenant = req[s].tenant
                   /\ req[o].key = req[s].key},
   expired |-> \E row \in idempotency_keys :
                 /\ row.key = req[s].key
                 /\ row.tenant_id = req[s].tenant
                 /\ Expired(row)]

\* Billing service: the cost of a response of `provider`.
UsageCost(provider) ==
  calculate_cost(provider, NormalizedTokens.tokens_in,
                 NormalizedTokens.tokens_out)

\* Variant: one usage row for each vendor request of the send.
UsageRows_PerAttempt(s) ==
  {[message_id |-> s, seq |-> i, tenant_id |-> req[s].tenant,
    provider |-> call[s].provider_used,
    cost_usd |-> UsageCost(call[s].provider_used), created_at |-> clock] :
     i \in 1..Len(call[s].requests)}

\* Variant: the usage row names the provider the agent is configured with.
UsageRows_ConfiguredPrimary(s) ==
  {[message_id |-> s, seq |-> 1, tenant_id |-> req[s].tenant,
    provider |-> Agent(req[s].tenant).primary_provider,
    cost_usd |-> UsageCost(Agent(req[s].tenant).primary_provider),
    created_at |-> clock]}

\* The usage event of a send: one row, for the provider that answered,
\* with the cost at that provider's prices.
UsageRows(s) ==
  {[message_id |-> s, seq |-> 1, tenant_id |-> req[s].tenant,
    provider |-> call[s].provider_used,
    cost_usd |-> UsageCost(call[s].provider_used), created_at |-> clock]}

MessageResponse(s) ==
  [id |-> s, reply_to |-> req[s].content,
   provider_used |-> call[s].provider_used]

\* ------------------------------------------------------ dashboard: login

NoApiKey == "null"
ApiKeys == {"keyA", "keyB", "wrong"}

\* The keys the backend accepts: one of tenant A, one of tenant B.
ValidApiKeys == {"keyA", "keyB"}

ProtectedPaths == {"/agents", "/chat", "/analytics"}
Paths == {"/login"} \cup ProtectedPaths

\* The components that call useAuth(); each call has a state of its own.
Components == {"Login", "ProtectedRoute", "Layout"}

Mounted(pathname) ==
  IF pathname = "/login" THEN {"Login"} ELSE {"ProtectedRoute", "Layout"}

\* apiClient's request interceptor: the X-API-Key header the request leaves
\* with, given the header its caller set.
RequestInterceptor(localStorage, header) ==
  IF localStorage # NoApiKey THEN localStorage ELSE header

\* The backend's answer to a request carrying this X-API-Key header.
StatusOf(header) == IF header \in ValidApiKeys THEN 200 ELSE 401

\* ProtectedRoute: whether it renders its children.
hasApiKey(apiKey, localStorage) ==
  apiKey # NoApiKey \/ localStorage # NoApiKey

\* The route shown for `pathname` once ProtectedRoute has been evaluated.
RouteFor(pathname, apiKey, localStorage) ==
  IF pathname \in ProtectedPaths /\ ~hasApiKey(apiKey, localStorage)
  THEN "/login"
  ELSE pathname

\* useAuth's state in every component after `pathname` was rendered afresh:
\* useState(null), then the mount effect copies localStorage.
useAuth(pathname, localStorage) ==
  [c \in Components |->
     IF c \in Mounted(pathname) THEN localStorage ELSE NoApiKey]

NoSubmit == [typed |-> NoApiKey, header |-> NoApiKey]
NoLogin == [key |-> NoApiKey, verified |-> NoApiKey]
NoApiRequest == [header |-> NoApiKey, removed |-> NoApiKey, status |-> 0]

NoAuth ==
  [pathname |-> "/login",
   localStorage |-> NoApiKey,
   apiKey |-> [c \in Components |-> NoApiKey],
   submit |-> NoSubmit,        \* handleSubmit's verification request in flight
   last_login |-> NoLogin,     \* the last login(k) and the key it was verified with
   removed |-> NoApiKey,       \* the key the last logout removed, until a login
   request |-> NoApiRequest]   \* the last request a protected page made

\* ------------------------------------------------------- dashboard: chat

MaxSelects == 3
MaxChatSends == 2
MaxNow == 1

ChatAgents == {"a1", "a2"}
NoAgent == ""
NoSession == [id |-> 0, agent_id |-> NoAgent]
ChatSends == 1..MaxChatSends

\* One sendMessage invocation: the Idempotency-Key it carried, the agent of
\* the session it was posted to, the agent selected and whether the chat
\* page's input was enabled when it was made, the send whose response the
\* backend returned, and whether the list was reset since.
NoSend ==
  [status |-> "idle", key |-> -1, session |-> NoAgent, agentId |-> NoAgent,
   enabled |-> FALSE, answered |-> 0, reset |-> FALSE]

NoChat ==
  [agentId |-> NoAgent,
   loading |-> FALSE,
   session |-> NoSession,
   messages |-> <<>>,
   creating |-> {},            \* sessionsApi.create requests in flight
   selects |-> 0,
   sends |-> [n \in ChatSends |-> NoSend],
   now |-> 0,                  \* Date.now()
   cache |-> {}]               \* the backend's idempotency rows of the tenant

\* `msg-${Date.now()}`
IdempotencyKeyAt(now) == now

RECURSIVE WithoutTemp(_)
\* prev.filter(m => !m.id.startsWith('temp-'))
WithoutTemp(list) ==
  IF list = <<>> THEN <<>>
  ELSE IF Head(list).id = "temp" THEN WithoutTemp(Tail(list))
       ELSE <<Head(list)>> \o WithoutTemp(Tail(list))

OptimisticMessage(n) == [id |-> "temp", send |-> n, reply_to |-> n]
ChatUserMessage(n) == [id |-> "user", send |-> n, reply_to |-> n]
ChatAssistantMessage(n, answered) ==
  [id |-> "assistant", send |-> n, reply_to |-> answered]

Invoked(c) == {n \in ChatSends : c.sends[n].status # "idle"}

\* useMutation's observer follows the mutation started last.
isPending(c) ==
  /\ Invoked(c) # {}
  /\ c.sends[CHOOSE n \in Invoked(c) : \A m \in Invoked(c) : m <= n].status
       = "pending"

isLoading(c) == isPending(c) \/ c.loading

\* The send whose cached response the backend returns for `key`, or `n`.
AnsweredWith(cache, key, n) ==
  IF \E row \in cache : row.key = key
  THEN (CHOOSE row \in cache : row.key = key).send
  ELSE n

\* ------------------------------------------------------ dashboard: voice

MaxStarts == 3
MaxRecordingTime == 2

Recordings == 1..MaxStarts

NoVoice ==
  [isRecording |-> FALSE,
   recordingTime |-> 0,
   isLoading |-> FALSE,         \* the chat page's voiceLoading
   started |-> 0,               \* startRecording invocations so far
   awaiting |-> {},             \* invocations waiting for getUserMedia
   recorder |-> [i \in Recordings |-> "none"],
   mediaRecorderRef |-> 0,
   timers |-> {},               \* intervals set and not cleared
   timerRef |-> 0,
   stopped |-> FALSE]           \* stopRecording ran and nothing started since

\* ------------------------------------------------------------------- Init

Init ==
  /\ pc = [s \in Sends |-> "Idle"]
  /\ req = [s \in Sends |-> NoRequest]
  /\ cached = [s \in Sends |-> NoResponse]
  /\ response = [s \in Sends |-> NoResponse]
  /\ error = [s \in Sends |-> "none"]
  /\ call = [s \in Sends |-> NoCall]
  /\ provider_calls = [s \in Sends |-> <<>>]
  /\ session = [s \in Sends |-> {}]
  /\ messages = {}
  /\ usage_events = {}
  /\ idempotency_keys = {}
  /\ tool_executions = {}
  /\ store_ops = [s \in Sends |-> [reads |-> 0, writes |-> 0]]
  /\ seen = [s \in Sends |-> NothingSeen]
  /\ clock = 0
  /\ resilient_call = NoResilientCall
  /\ billing = NoBilling
  /\ auth = NoAuth
  /\ chat = NoChat
  /\ voice = NoVoice

\* ---------------------------------------------------------------- actions

\* POST /api/sessions/{id}/messages arrives (sends are numbered in order of
\* arrival).
Receive(s, t, k, c) ==
  /\ pc[s] = "Idle"
  /\ IF s = 1 THEN TRUE ELSE pc[s - 1] # "Idle"
  /\ req' = [req EXCEPT ![s] = [tenant |-> t, key |-> k, content |-> c]]
  /\ pc' = [pc EXCEPT ![s] = "Received"]
  /\ UNCHANGED <<cached, response, error, call, provider_calls, session,
                 messages, usage_events, idempotency_keys, store_ops, seen, clock>>
  /\ UNCHANGED tool_executions
  /\ UNCHANGED unit_vars

\* send_message up to its first suspension point:
\*   if idempotency_key: cached = get_cached_response(...); if cached: return
\* and otherwise handle_message begins: load the agent, create the user
\* message record, prepare the vendor request.
CheckIdempotency(s) ==
  /\ pc[s] = "Received"
  /\ LET found == IF HasKey(req[s].key)
                    THEN get_cached_response(req[s].key, req[s].tenant)
                    ELSE NoResponse
     IN  /\ cached' = [cached EXCEPT ![s] = found]
         /\ IF found # NoResponse
              THEN /\ response' = [response EXCEPT ![s] = found]
                   /\ pc' = [pc EXCEPT ![s] = "Done"]
                   /\ UNCHANGED <<session, call>>
              ELSE /\ session' = [session EXCEPT ![s] = @ \cup {UserMessage(s)}]
                   /\ call' = [call EXCEPT ![s] = [NoCall EXCEPT !.role = "primary"]]
                   /\ pc' = [pc EXCEPT ![s] = "VendorCalling"]
                   /\ UNCHANGED response
  /\ IF HasKey(req[s].key)
       THEN /\ store_ops' = [store_ops EXCEPT ![s].reads = @ + 1]
            /\ seen' = [seen EXCEPT ![s] = SeenAtLookup(s)]
       ELSE UNCHANGED <<store_ops, seen>>
  /\ UNCHANGED <<req, error, provider_calls, messages, usage_events,
                 idempotency_keys, clock>>
  /\ UNCHANGED tool_executions
  /\ UNCHANGED unit_vars

\* One attempt of _call_with_retry under call_with_fallback: the request is
\* sent to the provider of the current role and the attempt is logged.  A
\* success returns to handle_message.  When the primary has raised and a
\* fallback is configured, the fallback event is logged and the role
\* switches; a failure with attempts left is retried; the last failure
\* without a (further) fallback raises AllVendorsFailed.
VendorAttempt(s, ok) ==
  /\ pc[s] = "VendorCalling"
  /\ LET t == req[s].tenant
         role == call[s].role
         n == call[s].attempt_number + 1
         sent == Append(call[s].requests, role)
         logged == Append(provider_calls[s], AttemptRecord(t, role, n, ok))
     IN  IF ok
           THEN /\ call' = [call EXCEPT ![s] =
                     [role |-> role, attempt_number |-> n, requests |-> sent,
                      provider_used |-> ProviderOf(t, role)]]
                /\ provider_calls' = [provider_calls EXCEPT ![s] = logged]
                /\ pc' = [pc EXCEPT ![s] = "ToolEvaluating"]
                /\ UNCHANGED <<error, session>>
           ELSE IF UseFallback(t, role, ok, n)
             THEN /\ call' = [call EXCEPT ![s] =
                       [@ EXCEPT !.role = "fallback", !.attempt_number = 0,
                                 !.requests = sent]]
                  /\ provider_calls' = [provider_calls EXCEPT
                       ![s] = LogFallback(logged, t)]
                  /\ UNCHANGED <<pc, error, session>>
             ELSE IF RetryAgain(n)
               THEN /\ call' = [call EXCEPT ![s] =
                         [@ EXCEPT !.attempt_number = n, !.requests = sent]]
                    /\ provider_calls' = [provider_calls EXCEPT ![s] = logged]
                    /\ UNCHANGED <<pc, error, session>>
               ELSE /\ call' = [call EXCEPT ![s] =
                         [@ EXCEPT !.attempt_number = n, !.requests = sent]]
                    /\ provider_calls' = [provider_calls EXCEPT ![s] = logged]
                    /\ error' = [error EXCEPT ![s] = "AllVendorsFailed"]
                    /\ session' = [session EXCEPT ![s] = {}]
                    /\ pc' = [pc EXCEPT ![s] = "Failed"]
  /\ UNCHANGED <<req, cached, response, messages, usage_events,
                 idempotency_keys, store_ops, seen, clock>>
  /\ UNCHANGED tool_executions
  /\ UNCHANGED unit_vars

\* Tool detection: "invoice" in the message and invoice_lookup among the
\* agent's enabled tools.
ToolDetected(s) ==
  /\ req[s].content = "invoice"
  /\ "invoice_lookup" \in Agent(req[s].tenant).enabled_tools

\* Variant: the audit row of a failed execution is left as it was created.
ToolExecution_LeftPending(s, ok) ==
  [message_id |-> s, tenant_id |-> req[s].tenant,
   tool_name |-> "invoice_lookup",
   status |-> IF ok THEN "success" ELSE "pending"]

\* execute_tool: the audit row as committed, `success` with the result or
\* `error` with the message of the exception.
ToolExecution(s, ok) ==
  [message_id |-> s, tenant_id |-> req[s].tenant,
   tool_name |-> "invoice_lookup",
   status |-> IF ok THEN "success" ELSE "error"]

\* What handle_message does with the exception execute_tool re-raises: the
\* tool's contribution is left out and the response is persisted.
AfterToolError == "Persisting"

\* Tool detection and execution.  execute_tool adds its audit row to the
\* session and commits: the row and what the request had pending become
\* durable, whether the tool returned or raised.
ToolDetection(s, ok) ==
  /\ pc[s] = "ToolEvaluating"
  /\ IF ToolDetected(s)
       THEN /\ tool_executions' = tool_executions \cup {ToolExecution(s, ok)}
            /\ messages' = messages \cup session[s]
            /\ session' = [session EXCEPT ![s] = {}]
            /\ pc' = [pc EXCEPT ![s] =
                        IF ok THEN "Persisting" ELSE AfterToolError]
       ELSE /\ ok
            /\ pc' = [pc EXCEPT ![s] = "Persisting"]
            /\ UNCHANGED <<tool_executions, messages, session>>
  /\ UNCHANGED <<req, cached, response, error, call, provider_calls,
                 usage_events, idempotency_keys, store_ops, seen, clock>>
  /\ UNCHANGED unit_vars

\* Create assistant message: INSERT INTO messages.
CreateAssistantMessage(s) ==
  /\ pc[s] = "Persisting"
  /\ session' = [session EXCEPT ![s] = @ \cup {AssistantMessage(s)}]
  /\ pc' = [pc EXCEPT ![s] = "CostCalculated"]
  /\ UNCHANGED <<req, cached, response, error, call, provider_calls,
                 messages, usage_events, idempotency_keys, store_ops, seen, clock>>
  /\ UNCHANGED tool_executions
  /\ UNCHANGED unit_vars

\* Billing service: calculate the cost, db.add(usage_event), db.commit().
CreateUsageEvent(s) ==
  /\ pc[s] = "CostCalculated"
  /\ messages' = messages \cup session[s]
  /\ usage_events' = usage_events \cup UsageRows(s)
  /\ session' = [session EXCEPT ![s] = {}]
  /\ response' = [response EXCEPT ![s] = MessageResponse(s)]
  /\ pc' = [pc EXCEPT ![s] = "CacheWriting"]
  /\ UNCHANGED <<req, cached, error, call, provider_calls,
                 idempotency_keys, store_ops, seen, clock>>
  /\ UNCHANGED tool_executions
  /\ UNCHANGED unit_vars

\* The database fails between the two inserts: the session is rolled back.
PersistFailure(s) ==
  /\ pc[s] = "CostCalculated"
  /\ session' = [session EXCEPT ![s] = {}]
  /\ error' = [error EXCEPT ![s] = "DatabaseError"]
  /\ pc' = [pc EXCEPT ![s] = "Failed"]
  /\ UNCHANGED <<req, cached, response, call, provider_calls, messages,
                 usage_events, idempotency_keys, store_ops, seen, clock>>
  /\ UNCHANGED tool_executions
  /\ UNCHANGED unit_vars

\* cache_response(idempotency_key, response, ttl_hours=24): INSERT INTO
\* idempotency_keys; nothing is cached for a request without a key.  A
\* refused INSERT raises out of send_message: the caller gets an error and
\* no response.
CacheResponse(s) ==
  /\ pc[s] = "CacheWriting"
  /\ IF ~HasKey(req[s].key)
       THEN /\ pc' = [pc EXCEPT ![s] = "Done"]
            /\ UNCHANGED <<idempotency_keys, store_ops, error, response>>
       ELSE IF PrimaryKeyConflict(req[s].key, req[s].tenant)
         THEN /\ error' = [error EXCEPT ![s] = "IntegrityError"]
              /\ response' = [response EXCEPT ![s] = NoResponse]
              /\ pc' = [pc EXCEPT ![s] = "Failed"]
              /\ UNCHANGED <<idempotency_keys, store_ops>>
         ELSE /\ idempotency_keys' = idempotency_keys \cup
                   {IdempotencyRow(req[s].key, req[s].tenant, response[s])}
              /\ store_ops' = [store_ops EXCEPT ![s].writes = @ + 1]
              /\ pc' = [pc EXCEPT ![s] = "Done"]
              /\ UNCHANGED <<error, response>>
  /\ UNCHANGED <<req, cached, call, provider_calls, session, messages,
                 usage_events, seen, clock>>
  /\ UNCHANGED tool_executions
  /\ UNCHANGED unit_vars

\* Out-of-band cleanup of expired rows (index on expires_at).
Cleanup ==
  /\ \E row \in idempotency_keys : Expired(row)
  /\ idempotency_keys' = {row \in idempotency_keys : ~Expired(row)}
  /\ UNCHANGED <<pc, req, cached, response, error, call, provider_calls,
                 session, messages, usage_events, store_ops, seen, clock>>
  /\ UNCHANGED tool_executions
  /\ UNCHANGED unit_vars

\* Time passes.
Tick ==
  /\ clock < MaxClock
  /\ clock' = clock + 1
  /\ UNCHANGED <<pc, req, cached, response, error, call, provider_calls,
                 session, messages, usage_events, idempotency_keys, store_ops, seen>>
  /\ UNCHANGED tool_executions
  /\ UNCHANGED unit_vars

Next ==
  \/ \E s \in Sends, t \in Tenants, k \in Keys \cup {NoKey}, c \in Contents :
       Receive(s, t, k, c)
  \/ \E s \in Sends : CheckIdempotency(s)
  \/ \E s \in Sends, ok \in BOOLEAN : VendorAttempt(s, ok)
  \/ \E s \in Sends, ok \in BOOLEAN : ToolDetection(s, ok)
  \/ \E s \in Sends : CreateAssistantMessage(s)
  \/ \E s \in Sends : CreateUsageEvent(s)
  \/ \E s \in Sends : PersistFailure(s)
  \/ \E s \in Sends : CacheResponse(s)
  \/ Cleanup
  \/ Tick

Spec == Init /\ [][Next]_vars

\* ------------------------------------------- the resilient caller alone

\* call_with_fallback(primary, fallback, request) is entered with the
\* adapters of the agent of tenant t.
CallWithFallback(t) ==
  /\ resilient_call.status = "idle"
  /\ resilient_call' = [NoResilientCall EXCEPT
                          !.status = "calling", !.tenant = t,
                          !.role = "primary"]
  /\ UNCHANGED <<pipeline_vars, billing, frontend_vars>>

\* One attempt of _call_with_retry and what tenacity and call_with_fallback
\* do with its outcome.  The request is sent and the attempt is logged; a
\* rate-limited attempt sleeps for the stated retry-after before it
\* re-raises.  Then: a response is returned; after the last failure of the
\* primary the fallback event is logged and the fallback is called, if
\* there is one; a failure with attempts left waits wait_exponential and is
\* retried; otherwise AllVendorsFailed is raised.
CallWithRetry(outcome) ==
  /\ resilient_call.status = "calling"
  /\ LET t == resilient_call.tenant
         role == resilient_call.role
         n == resilient_call.attempt_number + 1
         ok == outcome = Success
         sent == resilient_call.events \o RequestSent(role, n, outcome)
         handled == sent \o RateLimitSleep(outcome)
         logged == Append(resilient_call.records,
                          AttemptRecord(t, role, n, ok))
     IN  /\ outcome \in VendorOutcomes(ProviderOf(t, role))
         /\ resilient_call' =
              IF ok
                THEN [resilient_call EXCEPT
                        !.status = "returned", !.attempt_number = n,
                        !.events = sent, !.records = logged,
                        !.provider_used = ProviderOf(t, role)]
                ELSE IF UseFallback(t, role, ok, n)
                  THEN [resilient_call EXCEPT
                          !.role = "fallback", !.attempt_number = 0,
                          !.events = handled,
                          !.records = LogFallback(logged, t),
                          !.primary_error = outcome]
                  ELSE IF RetryAgain(n)
                    THEN [resilient_call EXCEPT
                            !.attempt_number = n,
                            !.events = handled \o BackoffSleep(n),
                            !.records = logged]
                    ELSE [resilient_call EXCEPT
                            !.status = "raised", !.attempt_number = n,
                            !.events = handled, !.records = logged,
                            !.failure =
                               IF role = "primary"
                                 THEN AllVendorsFailed(outcome, NoError)
                                 ELSE AllVendorsFailed(
                                        resilient_call.primary_error,
                                        outcome)]
  /\ UNCHANGED <<pipeline_vars, billing, frontend_vars>>

AllOutcomes == UNION {VendorOutcomes(p) : p \in Providers}

CallerNext ==
  \/ \E t \in AgentOwners : CallWithFallback(t)
  \/ \E outcome \in AllOutcomes : CallWithRetry(outcome)

CallerSpec == Init /\ [][CallerNext]_vars

\* ------------------------------------------ the billing calculator alone

TokenCounts == (0..MaxTokens) \cup {300, 500}

\* A response of `provider` with these token counts is to be billed.
Meter(provider, tokens_in, tokens_out) ==
  /\ billing = NoBilling
  /\ billing' = [provider |-> provider, tokens_in |-> tokens_in,
                 tokens_out |-> tokens_out, cost_usd |-> -1]
  /\ UNCHANGED <<pipeline_vars, resilient_call, frontend_vars>>

CalculateCost ==
  /\ billing.provider # NoProvider
  /\ billing.cost_usd = -1
  /\ billing' = [billing EXCEPT
                   !.cost_usd = calculate_cost(billing.provider,
                                               billing.tokens_in,
                                               billing.tokens_out)]
  /\ UNCHANGED <<pipeline_vars, resilient_call, frontend_vars>>

BillingNext ==
  \/ \E provider \in Providers, tokens_in \in TokenCounts,
        tokens_out \in TokenCounts :
          Meter(provider, tokens_in, tokens_out)
  \/ CalculateCost

BillingSpec == Init /\ [][BillingNext]_vars

\* ------------------------------------------------------ dashboard: login

\* A document load of `pathname` (address bar, reload, window.location.href).
LoadPage(a, pathname) ==
  LET shown == RouteFor(pathname, NoApiKey, a.localStorage)
  IN  [a EXCEPT !.pathname = shown,
                !.apiKey = useAuth(shown, a.localStorage),
                !.submit = NoSubmit]

OpenPage(pathname) ==
  /\ auth' = LoadPage(auth, pathname)
  /\ UNCHANGED <<pipeline_vars, resilient_call, billing, chat, voice>>

\* Login.handleSubmit up to its await: the verification request leaves.
HandleSubmit(k) ==
  /\ auth.pathname = "/login"
  /\ auth.submit = NoSubmit
  /\ auth' = [auth EXCEPT
                !.submit = [typed |-> k,
                            header |-> RequestInterceptor(auth.localStorage, k)]]
  /\ UNCHANGED <<pipeline_vars, resilient_call, billing, chat, voice>>

\* Login.handleSubmit after its await: login(apiKey) and navigate('/agents')
\* on success, the error text on 401 (the response interceptor leaves /login
\* alone).
VerificationSettles ==
  /\ auth.submit # NoSubmit
  /\ auth' =
       IF StatusOf(auth.submit.header) = 200
       THEN [auth EXCEPT
               !.localStorage = auth.submit.typed,
               !.pathname = "/agents",
               !.apiKey = useAuth("/agents", auth.submit.typed),
               !.last_login = [key |-> auth.submit.typed,
                               verified |-> auth.submit.header],
               !.removed = NoApiKey,
               !.submit = NoSubmit]
       ELSE [auth EXCEPT !.submit = NoSubmit]
  /\ UNCHANGED <<pipeline_vars, resilient_call, billing, chat, voice>>

\* The layout's logout button: logout() of the layout's own useAuth().
Logout ==
  /\ auth.pathname \in ProtectedPaths
  /\ auth' = [auth EXCEPT
                !.localStorage = NoApiKey,
                !.apiKey["Layout"] = NoApiKey,
                !.removed = IF auth.localStorage # NoApiKey
                            THEN auth.localStorage
                            ELSE auth.removed]
  /\ UNCHANGED <<pipeline_vars, resilient_call, billing, chat, voice>>

\* A link of the layout: the router renders ProtectedRoute again.
NavigateTo(pathname) ==
  /\ auth.pathname \in ProtectedPaths
  /\ pathname \in ProtectedPaths \ {auth.pathname}
  /\ LET shown == RouteFor(pathname, auth.apiKey["ProtectedRoute"],
                           auth.localStorage)
     IN  auth' = [auth EXCEPT
                    !.pathname = shown,
                    !.apiKey = IF shown = "/login"
                               THEN useAuth(shown, auth.localStorage)
                               ELSE auth.apiKey]
  /\ UNCHANGED <<pipeline_vars, resilient_call, billing, chat, voice>>

\* A protected page calls the API through apiClient; on 401 the response
\* interceptor removes the key and loads /login.
ApiRequest ==
  /\ auth.pathname \in ProtectedPaths
  /\ LET header == RequestInterceptor(auth.localStorage, NoApiKey)
         sent == [auth EXCEPT
                    !.request = [header |-> header,
                                 removed |-> auth.removed,
                                 status |-> StatusOf(header)]]
     IN  auth' = IF StatusOf(header) = 401
                 THEN LoadPage([sent EXCEPT !.localStorage = NoApiKey],
                               "/login")
                 ELSE sent
  /\ UNCHANGED <<pipeline_vars, resilient_call, billing, chat, voice>>

AuthNext ==
  \/ \E pathname \in Paths : OpenPage(pathname)
  \/ \E k \in ApiKeys : HandleSubmit(k)
  \/ VerificationSettles
  \/ Logout
  \/ \E pathname \in ProtectedPaths : NavigateTo(pathname)
  \/ ApiRequest

AuthSpec == Init /\ [][AuthNext]_vars

\* ------------------------------------------------------- dashboard: chat

\* The chat page's agent button, then useChat's effect on [agentId]:
\* setLoading(true) and createNewSession().
SelectAgent(agent) ==
  /\ chat.selects < MaxSelects
  /\ agent # chat.agentId
  /\ chat' = [chat EXCEPT
                !.agentId = agent,
                !.loading = TRUE,
                !.selects = chat.selects + 1,
                !.creating = chat.creating \cup
                               {[id |-> chat.selects + 1, agent_id |-> agent]}]
  /\ UNCHANGED <<pipeline_vars, resilient_call, billing, auth, voice>>

\* createNewSession's then / catch / finally.
CreateSettles(request, ok) ==
  /\ request \in chat.creating
  /\ chat' =
       IF ok
       THEN [chat EXCEPT
               !.creating = chat.creating \ {request},
               !.session = request,
               !.messages = <<>>,
               !.sends = [n \in ChatSends |->
                            IF chat.sends[n].status # "idle"
                            THEN [chat.sends[n] EXCEPT !.reset = TRUE]
                            ELSE chat.sends[n]],
               !.loading = FALSE]
       ELSE [chat EXCEPT
               !.creating = chat.creating \ {request},
               !.loading = FALSE]
  /\ UNCHANGED <<pipeline_vars, resilient_call, billing, auth, voice>>

\* sendMessage(content): onMutate, then mutationFn posts the message.
sendMessage(n) ==
  /\ chat.sends[n].status = "idle"
  /\ \A m \in ChatSends : m < n => chat.sends[m].status # "idle"
  /\ chat.session # NoSession
  /\ chat' = [chat EXCEPT
                !.messages = Append(chat.messages, OptimisticMessage(n)),
                !.sends[n] = [status |-> "pending",
                              key |-> IdempotencyKeyAt(chat.now),
                              session |-> chat.session.agent_id,
                              agentId |-> chat.agentId,
                              enabled |-> ~isLoading(chat),
                              answered |-> 0,
                              reset |-> FALSE]]
  /\ UNCHANGED <<pipeline_vars, resilient_call, billing, auth, voice>>

\* The backend answers (from its idempotency rows when the key is known),
\* then onSuccess.
SendSucceeds(n) ==
  /\ chat.sends[n].status = "pending"
  /\ LET key == chat.sends[n].key
         answered == AnsweredWith(chat.cache, key, n)
     IN  chat' = [chat EXCEPT
                    !.cache = IF answered = n
                              THEN chat.cache \cup {[key |-> key, send |-> n]}
                              ELSE chat.cache,
                    !.messages = WithoutTemp(chat.messages) \o
                                   <<ChatUserMessage(n),
                                     ChatAssistantMessage(n, answered)>>,
                    !.sends[n].status = "succeeded",
                    !.sends[n].answered = answered]
  /\ UNCHANGED <<pipeline_vars, resilient_call, billing, auth, voice>>

\* onError.
SendFails(n) ==
  /\ chat.sends[n].status = "pending"
  /\ chat' = [chat EXCEPT
                !.messages = WithoutTemp(chat.messages),
                !.sends[n].status = "failed"]
  /\ UNCHANGED <<pipeline_vars, resilient_call, billing, auth, voice>>

\* A millisecond passes.
TickMs ==
  /\ chat.now < MaxNow
  /\ chat' = [chat EXCEPT !.now = chat.now + 1]
  /\ UNCHANGED <<pipeline_vars, resilient_call, billing, auth, voice>>

ChatNext ==
  \/ \E agent \in ChatAgents : SelectAgent(agent)
  \/ \E request \in chat.creating, ok \in BOOLEAN : CreateSettles(request, ok)
  \/ \E n \in ChatSends : sendMessage(n)
  \/ \E n \in ChatSends : SendSucceeds(n)
  \/ \E n \in ChatSends : SendFails(n)
  \/ TickMs

ChatSpec == Init /\ [][ChatNext]_vars

\* ------------------------------------------------------ dashboard: voice

\* The record button while it shows the microphone: startRecording up to
\* its await.
startRecording ==
  /\ ~voice.isLoading
  /\ ~voice.isRecording
  /\ voice.started < MaxStarts
  /\ voice' = [voice EXCEPT
                 !.started = voice.started + 1,
                 !.awaiting = voice.awaiting \cup {voice.started + 1}]
  /\ UNCHANGED <<pipeline_vars, resilient_call, billing, auth, chat>>

\* startRecording after its await: the recorder and the timer start.
GetUserMediaResolves(i) ==
  /\ i \in voice.awaiting
  /\ voice' = [voice EXCEPT
                 !.awaiting = voice.awaiting \ {i},
                 !.recorder[i] = "recording",
                 !.mediaRecorderRef = i,
                 !.isRecording = TRUE,
                 !.recordingTime = 0,
                 !.timers = voice.timers \cup {i},
                 !.timerRef = i,
                 !.stopped = FALSE]
  /\ UNCHANGED <<pipeline_vars, resilient_call, billing, auth, chat>>

\* startRecording's catch.
GetUserMediaRejects(i) ==
  /\ i \in voice.awaiting
  /\ voice' = [voice EXCEPT !.awaiting = voice.awaiting \ {i}]
  /\ UNCHANGED <<pipeline_vars, resilient_call, billing, auth, chat>>

\* The record button while it shows the stop icon: stopRecording, and the
\* recorder's onstop handing the file to the chat page.
stopRecording ==
  /\ ~voice.isLoading
  /\ voice.isRecording
  /\ voice' =
       IF /\ voice.mediaRecorderRef # 0
          /\ voice.recorder[voice.mediaRecorderRef] = "recording"
       THEN [voice EXCEPT
               !.recorder[voice.mediaRecorderRef] = "inactive",
               !.isRecording = FALSE,
               !.timers = voice.timers \ {voice.timerRef},
               !.timerRef = 0,
               !.isLoading = TRUE,
               !.stopped = TRUE]
       ELSE voice
  /\ UNCHANGED <<pipeline_vars, resilient_call, billing, auth, chat>>

\* An interval fires: setRecordingTime(prev => prev + 1).
Interval(t) ==
  /\ t \in voice.timers
  /\ voice.recordingTime < MaxRecordingTime
  /\ voice' = [voice EXCEPT !.recordingTime = voice.recordingTime + 1]
  /\ UNCHANGED <<pipeline_vars, resilient_call, billing, auth, chat>>

\* handleVoiceMessage's finally.
VoiceMessageSettles ==
  /\ voice.isLoading
  /\ voice' = [voice EXCEPT !.isLoading = FALSE]
  /\ UNCHANGED <<pipeline_vars, resilient_call, billing, auth, chat>>

VoiceNext ==
  \/ startRecording
  \/ \E i \in Recordings : GetUserMediaResolves(i)
  \/ \E i \in Recordings : GetUserMediaRejects(i)
  \/ stopRecording
  \/ \E t \in Recordings : Interval(t)
  \/ VoiceMessageSettles

VoiceSpec == Init /\ [][VoiceNext]_vars

\* ================================================================= claims

Ended(s) == pc[s] \in {"Done", "Failed"}

\* The send got a response from a vendor and handle_message went on to
\* persist it.
Processed(s) == call[s].provider_used # NoProvider

AnsweredFromCache(s) == pc[s] = "Done" /\ cached[s] # NoResponse

AssistantMessagesOf(s) ==
  {m \in messages : m.role = "assistant" /\ m.correlation_id = s}

UsageEventsOf(s) == {u \in usage_events : u.message_id = s}

SendsOf(t, k) == {s \in Sends : req[s].tenant = t /\ req[s].key = k}

\* Rows written for (t, k) within one TTL before time `at`: the rows that
\* belong to the lifetime of a record created at `at`.
UsageEventsSince(t, k, at) ==
  {u \in usage_events :
     u.message_id \in SendsOf(t, k) /\ u.created_at > at - ttl_days}

AssistantMessagesSince(t, k, at) ==
  {m \in messages :
     /\ m.role = "assistant"
     /\ m.correlation_id \in SendsOf(t, k)
     /\ m.created_at > at - ttl_days}

\* C1: for every (tenant, key) that has an unexpired record, at most one
\* UsageEvent and at most one assistant Message exist for the pair, and a
\* send answered from the cache has made no vendor call and written no
\* Message and no UsageEvent.
C1_AtMostOncePerKey ==
  /\ \A row \in idempotency_keys :
       ~Expired(row) =>
         /\ Cardinality(UsageEventsSince(row.tenant_id, row.key,
                                         row.created_at)) <= 1
         /\ Cardinality(AssistantMessagesSince(row.tenant_id, row.key,
                                               row.created_at)) <= 1
  /\ \A s \in Sends :
       AnsweredFromCache(s) =>
         /\ call[s].requests = <<>>
         /\ provider_calls[s] = <<>>
         /\ AssistantMessagesOf(s) = {}
         /\ UsageEventsOf(s) = {}

\* C2: when two sends of one tenant with the same key overlap (one looks
\* up while the other is being processed) and both get a vendor response,
\* exactly one UsageEvent exists for the pair once both have returned.
C2_ConcurrentDuplicatesBilledOnce ==
  \A s1 \in Sends : \A s2 \in seen[s1].inflight :
    (/\ Ended(s1) /\ Ended(s2)
     /\ Processed(s1) /\ Processed(s2)
     /\ error[s1] # "DatabaseError" /\ error[s2] # "DatabaseError")
    => Cardinality(UsageEventsOf(s1) \cup UsageEventsOf(s2)) = 1

\* C3: in every state in which a send has ended, its assistant Message
\* exists if and only if its UsageEvent exists, and a send that ended in
\* Failed has written neither.
C3_EndedSendAllOrNothing ==
  \A s \in Sends :
    Ended(s) =>
      /\ (AssistantMessagesOf(s) # {}) <=> (UsageEventsOf(s) # {})
      /\ pc[s] = "Failed" =>
           AssistantMessagesOf(s) = {} /\ UsageEventsOf(s) = {}

\* The first half of C3 alone: Message and UsageEvent of an ended send
\* are committed together or not at all.
C3_MessageIffUsageEvent ==
  \A s \in Sends :
    Ended(s) => ((AssistantMessagesOf(s) # {}) <=> (UsageEventsOf(s) # {}))

\* C4: a send that completes successfully after being processed has
\* exactly one assistant Message and exactly one UsageEvent, however many
\* vendor attempts failed before and whichever provider answered.
C4_OneMessageOneUsageEvent ==
  \A s \in Sends :
    (pc[s] = "Done" /\ Processed(s)) =>
      /\ Cardinality(AssistantMessagesOf(s)) = 1
      /\ Cardinality(UsageEventsOf(s)) = 1

\* A send answered by the fallback after three failed primary attempts and
\* one failed fallback attempt has completed.
C4_Witness ==
  \E s \in Sends :
    /\ pc[s] = "Done"
    /\ call[s].role = "fallback"
    /\ Len(call[s].requests) = max_attempts + 2
    /\ Cardinality(UsageEventsOf(s)) = 1

\* C5: a send answered from the cache returns the response that the send
\* which created the record returned -- a send of the same tenant and key
\* that was processed and completed -- whatever content the repeat carries.
C5_RepeatGetsFirstResponse ==
  \A s \in Sends :
    AnsweredFromCache(s) =>
      \E o \in SendsOf(req[s].tenant, req[s].key) \ {s} :
        /\ pc[o] = "Done"
        /\ Processed(o)
        /\ response[o] = [id |-> o, reply_to |-> req[o].content,
                          provider_used |-> call[o].provider_used]
        /\ response[s] = response[o]

\* A repeat with another content was answered with the first response.
C5_Witness ==
  \E s \in Sends, o \in Sends :
    /\ AnsweredFromCache(s)
    /\ req[o].tenant = req[s].tenant /\ req[o].key = req[s].key
    /\ req[o].content # req[s].content
    /\ response[s] = response[o]
    /\ response[s].reply_to = req[o].content

\* C6: two tenants that send with the same key string are processed and
\* cached independently: neither is answered with the other's response,
\* and the store of each succeeds, so each processed send completes.
C6_KeysScopedPerTenant ==
  \A a \in Sends, b \in Sends :
    (/\ req[a].tenant # req[b].tenant
     /\ req[a].key = req[b].key /\ HasKey(req[a].key)
     /\ Ended(a) /\ Ended(b)
     /\ Processed(a) /\ Processed(b)
     /\ error[a] # "DatabaseError" /\ error[b] # "DatabaseError")
    => /\ pc[a] = "Done" /\ pc[b] = "Done"
       /\ store_ops[a].writes = 1 /\ store_ops[b].writes = 1
       /\ response[a] # response[b]

\* C7: a send that finds only an expired record of its own tenant and key
\* gets no cached response, is processed as a new request, and its
\* response is stored under the same (tenant, key).
C7_ExpiredRecordIsAbsent ==
  \A s \in Sends :
    seen[s].expired =>
      /\ cached[s] = NoResponse
      /\ (Ended(s) /\ Processed(s) /\ error[s] # "DatabaseError") =>
           /\ pc[s] = "Done"
           /\ store_ops[s].writes = 1

\* The lookup half of C7 alone: an expired record is never returned.
C7_ExpiredNeverReturned ==
  \A s \in Sends : seen[s].expired => cached[s] = NoResponse

\* C8: a send without a key makes no read and no write on the
\* idempotency store and is never answered from it, and the key-less sends
\* that completed have one UsageEvent each.
KeylessDone == {s \in Sends : pc[s] = "Done" /\ req[s].key = NoKey}

C9_Step ==
  /\ \A row \in idempotency_keys' \ idempotency_keys :
       \E s \in Sends :
         /\ pc[s] = "CacheWriting" /\ pc'[s] = "Done"
         /\ row.key = req[s].key /\ row.tenant_id = req[s].tenant
         /\ row.response = response'[s]
  /\ \A row \in idempotency_keys :
       ~Expired(row) =>
         \A other \in idempotency_keys' :
           (other.key = row.key /\ other.tenant_id = row.tenant_id)
             <=> other = row
  /\ \A s \in Sends :
       (pc[s] # "Failed" /\ pc'[s] = "Failed") =>
         idempotency_keys' = idempotency_keys

C9_RecordOnlyOnSuccess == [][C9_Step]_vars

\* After a send with a key failed, a later send of the same tenant and key
\* found nothing cached and was processed and completed.
C9_Witness ==
  \E f \in Sends, s \in Sends :
    /\ pc[f] = "Failed" /\ error[f] = "AllVendorsFailed"
    /\ HasKey(req[f].key)
    /\ req[s].tenant = req[f].tenant /\ req[s].key = req[f].key
    /\ f < s
    /\ pc[s] = "Done" /\ cached[s] = NoResponse
    /\ store_ops[s].writes = 1

\* C10: within one logical call a request goes to the fallback only after
\* max_attempts requests went to the primary and all of them failed; once
\* a primary attempt succeeded, no request goes to the fallback and no
\* record of the fallback role is written.
PrimaryRecords(s) ==
  SelectSeq(provider_calls[s], LAMBDA r : r.role = "primary")

FallbackRecords(s) ==
  SelectSeq(provider_calls[s], LAMBDA r : r.role = "fallback")

C10_FallbackOnlyAfterPrimaryExhausted ==
  \A s \in Sends :
    LET sent == call[s].requests
        primary == PrimaryRecords(s)
    IN  /\ \A i \in 1..Len(sent) :
             sent[i] = "fallback" =>
               /\ i > max_attempts
               /\ \A j \in 1..max_attempts : sent[j] = "primary"
               /\ Len(primary) = max_attempts
               /\ \A j \in 1..Len(primary) : primary[j].status # "success"
        /\ (\E j \in 1..Len(primary) : primary[j].status = "success") =>
             /\ \A i \in 1..Len(sent) : sent[i] = "primary"
             /\ FallbackRecords(s) = <<>>
             /\ \A i \in 1..Len(provider_calls[s]) :
                  provider_calls[s][i].provider = Agent(req[s].tenant).primary_provider

\* A request has gone to the fallback provider.
C10_Witness ==
  \E s \in Sends :
    /\ Len(call[s].requests) > max_attempts
    /\ call[s].requests[max_attempts + 1] = "fallback"

\* ------------------------------------------- claims on the caller alone

Events == resilient_call.events
Records == resilient_call.records
Roles == {"primary", "fallback"}

RequestsTo(role) ==
  SelectSeq(Events, LAMBDA e : e.kind = "request" /\ e.role = role)

AllRequestsFailed(role) ==
  \A i \in 1..Len(RequestsTo(role)) : RequestsTo(role)[i].result # Success

\* The caller makes no further request to the provider of `role`.
DoneWith(role) ==
  resilient_call.status \in {"returned", "raised"}
  \/ (role = "primary" /\ resilient_call.role = "fallback")

FallbackConfigured ==
  /\ resilient_call.tenant \in AgentOwners
  /\ Agent(resilient_call.tenant).fallback_provider # NoProvider

\* Records of attempts: all records but the `fallback` marker.
AttemptRecordsOf(role) ==
  SelectSeq(Records, LAMBDA r : r.role = role /\ r.status # "fallback")

MarkerPositions == {i \in 1..Len(Records) : Records[i].status = "fallback"}

\* Events i and j are two requests with no request between them.
ConsecutiveRequests(i, j) ==
  /\ i < j
  /\ Events[i].kind = "request" /\ Events[j].kind = "request"
  /\ \A m \in (i + 1)..(j - 1) : Events[m].kind # "request"

\* Time slept between events i and j, in ms.
RECURSIVE SleepMs(_, _)
SleepMs(i, j) ==
  IF i + 1 >= j
    THEN 0
    ELSE (IF Events[i + 1].kind = "sleep" THEN Events[i + 1].ms ELSE 0)
         + SleepMs(i + 1, j)

C12_RateLimitedWaitsRetryAfter ==
  \A i \in 1..Len(Events) : \A j \in 1..Len(Events) :
    (/\ ConsecutiveRequests(i, j)
     /\ Events[i].role = Events[j].role
     /\ Events[i].result.type = "VendorBRateLimitError")
    => SleepMs(i, j) = Events[i].result.retry_after_ms

\* The lower bound of C12 alone: a rate-limited provider is never asked
\* again before its retry-after has passed.
C12_NeverBeforeRetryAfter ==
  \A i \in 1..Len(Events) : \A j \in 1..Len(Events) :
    (/\ ConsecutiveRequests(i, j)
     /\ Events[i].role = Events[j].role
     /\ Events[i].result.type = "VendorBRateLimitError")
    => SleepMs(i, j) >= Events[i].result.retry_after_ms

\* C13: when the failure before attempt n of a provider is not a rate
\* limit, the time slept before attempt n is min(1 * 2^(n-2), 10) seconds:
\* 1 s before attempt 2 and 2 s before attempt 3; and the computed wait
\* follows that formula and stays within the cap for every attempt number.
C13_BackoffSchedule ==
  /\ \A i \in 1..Len(Events) : \A j \in 1..Len(Events) :
       (/\ ConsecutiveRequests(i, j)
        /\ Events[i].role = Events[j].role
        /\ Events[i].result.type # "VendorBRateLimitError")
       => /\ SleepMs(i, j)
               = MinOf(1 * Pow2(Events[j].attempt_number - 2), 10) * 1000
          /\ Events[j].attempt_number = 2 => SleepMs(i, j) = 1000
          /\ Events[j].attempt_number = 3 => SleepMs(i, j) = 2000
  /\ \A n \in 2..MaxAttemptNumber :
       /\ wait_exponential(n - 1) = MinOf(1 * Pow2(n - 2), 10)
       /\ wait_exponential(n - 1) <= 10

\* A third attempt was made after two failures that were not rate limits.
C13_Witness ==
  \E i \in 1..Len(Events) : \E j \in 1..Len(Events) :
    /\ ConsecutiveRequests(i, j)
    /\ Events[i].role = Events[j].role
    /\ Events[i].result.type # "VendorBRateLimitError"
    /\ Events[j].attempt_number = max_attempts
    /\ SleepMs(i, j) = 2000

\* C14: for each provider of a logical call there are as many attempt
\* records as requests sent to it, and its k-th attempt is recorded with
\* attempt number k, the first attempt to the fallback with number 1.
C14_AttemptNumbersPerProvider ==
  \A role \in Roles :
    /\ Len(AttemptRecordsOf(role)) = Len(RequestsTo(role))
    /\ \A k \in 1..Len(AttemptRecordsOf(role)) :
         AttemptRecordsOf(role)[k].attempt_number = k

\* The counting half of C14 alone: one attempt record for each request.
C14_OneRecordPerRequest ==
  \A role \in Roles : Len(AttemptRecordsOf(role)) = Len(RequestsTo(role))

\* C15: when the primary has exhausted its attempts and a fallback is
\* configured, the audit is, in creation order: the max_attempts primary
\* records, exactly one `fallback` marker, then the fallback attempt
\* records; and the marker is written in no other case.
C15_PrimaryMarkerFallbackOrder ==
  /\ (/\ FallbackConfigured
      /\ Len(RequestsTo("primary")) = max_attempts
      /\ AllRequestsFailed("primary"))
     => /\ MarkerPositions = {max_attempts + 1}
        /\ \A i \in 1..Len(Records) :
             /\ i <= max_attempts => Records[i].role = "primary"
             /\ i > max_attempts + 1 =>
                  Records[i].role = "fallback" /\ Records[i].status # "fallback"
        /\ Len(Records) = max_attempts + 1 + Len(RequestsTo("fallback"))
  /\ MarkerPositions # {} =>
       /\ FallbackConfigured
       /\ Len(RequestsTo("primary")) = max_attempts
       /\ AllRequestsFailed("primary")
  /\ Len(RequestsTo("fallback")) > 0 => MarkerPositions # {}

\* The fallback was tried twice after the marker.
C15_Witness ==
  /\ MarkerPositions = {max_attempts + 1}
  /\ Len(Records) = max_attempts + 3

\* C16: a failed attempt that is followed by another attempt to the same
\* provider is recorded `retrying`, the last failed attempt of an exhausted
\* provider `error`, a successful attempt `success`; so two failures and a
\* success of the primary give 2 `retrying` and 1 `success` record, and an
\* exhausted primary with a first-try fallback success gives 3 primary
\* records ending in `error`, 1 marker and 1 `success`.
StatusesOf(role) ==
  [k \in 1..Len(AttemptRecordsOf(role)) |-> AttemptRecordsOf(role)[k].status]

C16_AttemptStatuses ==
  /\ \A role \in Roles : \A k \in 1..Len(RequestsTo(role)) :
       k <= Len(AttemptRecordsOf(role)) =>
         AttemptRecordsOf(role)[k].status =
           IF RequestsTo(role)[k].result = Success THEN "success"
           ELSE IF k < max_attempts THEN "retrying" ELSE "error"
  /\ (/\ resilient_call.status = "returned"
      /\ resilient_call.role = "primary"
      /\ Len(RequestsTo("primary")) = 3)
     => /\ StatusesOf("primary") = <<"retrying", "retrying", "success">>
        /\ AttemptRecordsOf("fallback") = <<>>
  /\ (/\ resilient_call.status = "returned"
      /\ resilient_call.role = "fallback"
      /\ Len(RequestsTo("fallback")) = 1)
     => /\ Len(AttemptRecordsOf("primary")) = 3
        /\ StatusesOf("primary")[3] = "error"
        /\ Cardinality(MarkerPositions) = 1
        /\ StatusesOf("fallback") = <<"success">>

\* C16 up to the name of the status of a retried attempt: the records of
\* the two scenarios with `retry` in place of `retrying`.
C16_StatusesWithRetry ==
  /\ \A role \in Roles : \A k \in 1..Len(RequestsTo(role)) :
       k <= Len(AttemptRecordsOf(role)) =>
         AttemptRecordsOf(role)[k].status =
           IF RequestsTo(role)[k].result = Success THEN "success"
           ELSE IF k < max_attempts THEN "retry" ELSE "error"
  /\ (/\ resilient_call.status = "returned"
      /\ resilient_call.role = "fallback"
      /\ Len(RequestsTo("fallback")) = 1)
     => /\ StatusesOf("primary") = <<"retry", "retry", "error">>
        /\ Cardinality(MarkerPositions) = 1
        /\ StatusesOf("fallback") = <<"success">>

\* C18: when no fallback is configured and every primary attempt has
\* failed, the call has failed with AllVendorsFailed right after the last
\* primary attempt: no `fallback` marker, no further request, and no wait
\* after the final failed attempt.
C18_FailFastWithoutFallback ==
  (/\ resilient_call.status # "idle"
   /\ ~FallbackConfigured
   /\ Len(RequestsTo("primary")) = max_attempts
   /\ AllRequestsFailed("primary"))
  => /\ resilient_call.status = "raised"
     /\ resilient_call.failure.type = "AllVendorsFailed"
     /\ MarkerPositions = {}
     /\ RequestsTo("fallback") = <<>>
     /\ Len(Events) > 0 /\ Events[Len(Events)].kind = "request"

\* C18 without its last clause: the failure, no marker, no further request.
C18_NoFallbackNoMarkerNoRequest ==
  (/\ resilient_call.status # "idle"
   /\ ~FallbackConfigured
   /\ Len(RequestsTo("primary")) = max_attempts
   /\ AllRequestsFailed("primary"))
  => /\ resilient_call.status = "raised"
     /\ resilient_call.failure.type = "AllVendorsFailed"
     /\ MarkerPositions = {}
     /\ RequestsTo("fallback") = <<>>
     /\ Len(Events) > 0 /\ Events[Len(Events)].cause # "backoff"

\* C19: the logical call fails with AllVendorsFailed exactly when every
\* attempt to the primary failed and there is no fallback or every attempt
\* to the fallback failed as well; the failure carries the last error of
\* the primary and, when the fallback was tried, the last error of the
\* fallback; and the caller sees no other failure.
LastResult(role) == RequestsTo(role)[Len(RequestsTo(role))].result

Exhausted(role) ==
  Len(RequestsTo(role)) = max_attempts /\ AllRequestsFailed(role)

SuccessRecords(s) ==
  SelectSeq(provider_calls[s], LAMBDA r : r.status = "success")

\* C17: the provider on the UsageEvent and on the assistant Message of a
\* completed send is the provider of its successful attempt, and the cost
\* is that provider's price of the response's tokens: the fallback and its
\* prices when the primary was exhausted.
C17_ProviderActuallyUsed ==
  \A s \in Sends :
    (pc[s] = "Done" /\ Processed(s)) =>
      /\ Len(SuccessRecords(s)) = 1
      /\ LET winner == SuccessRecords(s)[1].provider
         IN  /\ \A u \in UsageEventsOf(s) :
                  /\ u.provider = winner
                  /\ u.cost_usd * 1000
                       = NormalizedTokens.tokens_in
                           * PRICING[winner].input_tokens
                         + NormalizedTokens.tokens_out
                           * PRICING[winner].output_tokens
             /\ \A m \in AssistantMessagesOf(s) : m.provider_used = winner
             /\ Len(PrimaryRecords(s)) = max_attempts
                  /\ PrimaryRecords(s)[max_attempts].status # "success"
                => /\ winner = Agent(req[s].tenant).fallback_provider
                   /\ winner # Agent(req[s].tenant).primary_provider

\* A send answered by the fallback is billed to vendorB at vendorB's price.
C17_Witness ==
  \E s \in Sends : \E u \in UsageEventsOf(s) :
    /\ pc[s] = "Done"
    /\ call[s].role = "fallback"
    /\ Agent(req[s].tenant).primary_provider = "vendorA"
    /\ u.provider = "vendorB"
    /\ u.cost_usd = 750

\* ------------------------------------ claims on the billing calculator

\* Half-up rounding of thousandths of a millionth to millionths.
RoundHalfUp(thousandths) == (thousandths + 500) \div 1000

ToolExecutionsOf(s) == {x \in tool_executions : x.message_id = s}

ToolFailed(s) == \E x \in ToolExecutionsOf(s) : x.status = "error"

UserMessagesOf(s) ==
  {m \in messages : m.role = "user" /\ m.correlation_id = s}

\* The send is past its tool evaluation.
PastToolEvaluation(s) ==
  pc[s] \in {"Persisting", "CostCalculated", "CacheWriting"}
  \/ (Ended(s) /\ Processed(s))

Quiescent == \A s \in Sends : pc[s] \in {"Idle", "Done", "Failed"}

C22_UserAndAssistantPaired ==
  Quiescent =>
    /\ Cardinality({m \in messages : m.role = "user"})
         = Cardinality({m \in messages : m.role = "assistant"})
    /\ \A s \in Sends :
         /\ Cardinality(UserMessagesOf(s)) = Cardinality(AssistantMessagesOf(s))
         /\ error[s] = "AllVendorsFailed" => UserMessagesOf(s) = {}

\* The AllVendorsFailed half of C22 alone.
C22_NoUserMessageAfterAllVendorsFailed ==
  \A s \in Sends : error[s] = "AllVendorsFailed" => UserMessagesOf(s) = {}

\* C23: a send moves only along Received, then Done on a cache hit or
\* VendorCalling, ToolEvaluating, Persisting, CostCalculated, CacheWriting,
\* Done on a miss, and enters Failed only from VendorCalling (a failure of
\* the database itself set aside).
FlowEdges ==
  {<<"Idle", "Received">>, <<"Received", "Done">>,
   <<"Received", "VendorCalling">>, <<"VendorCalling", "ToolEvaluating">>,
   <<"VendorCalling", "Failed">>, <<"ToolEvaluating", "Persisting">>,
   <<"Persisting", "CostCalculated">>, <<"CostCalculated", "CacheWriting">>,
   <<"CacheWriting", "Done">>}

C23_Step ==
  \A s \in Sends :
    (pc'[s] # pc[s] /\ error'[s] # "DatabaseError") =>
      <<pc[s], pc'[s]>> \in FlowEdges

C23_OnlyAlongTheFlow == [][C23_Step]_vars

\* C23 without the failures of the cache write: every other step follows
\* the flow.
C23_StepButCacheWrite ==
  \A s \in Sends :
    (/\ pc'[s] # pc[s]
     /\ error'[s] \notin {"DatabaseError", "IntegrityError"})
    => <<pc[s], pc'[s]>> \in FlowEdges

C23_FlowButCacheWrite == [][C23_StepButCacheWrite]_vars

\* C24: within one logical call the attempt numbers recorded for one
\* provider name are strictly increasing in creation order (the `fallback`
\* marker left aside), also when the fallback names the primary's provider.
AttemptRecordsFor(provider) ==
  SelectSeq(Records,
            LAMBDA r : r.provider = provider /\ r.status # "fallback")

C24_AttemptNumbersIncreasePerProvider ==
  \A provider \in Providers :
    \A i \in 1..Len(AttemptRecordsFor(provider)) :
      \A j \in 1..Len(AttemptRecordsFor(provider)) :
        i < j => AttemptRecordsFor(provider)[i].attempt_number
                   < AttemptRecordsFor(provider)[j].attempt_number

\* C24 for the agents whose fallback is another provider than the primary.
C24_IncreaseWhenProvidersDiffer ==
  (/\ resilient_call.tenant \in AgentOwners
   /\ Agent(resilient_call.tenant).fallback_provider
        # Agent(resilient_call.tenant).primary_provider)
  => C24_AttemptNumbersIncreasePerProvider

\* ------------------------------------------------------ dashboard claims

\* C25: the dashboard stores an API key at login only if the backend
\* accepted that very key: whenever handleSubmit calls login(k), the
\* verification request that succeeded carried X-API-Key = k, also when
\* another key is already in localStorage.
C25_StoredKeyWasVerified ==
  auth.last_login # NoLogin => auth.last_login.verified = auth.last_login.key

\* What does hold at login: the request that succeeded carried a key the
\* backend accepts.
C25_VerificationCarriedAValidKey ==
  auth.last_login # NoLogin => auth.last_login.verified \in ValidApiKeys

LoggedOut == auth.removed # NoApiKey

\* C26: after logout from the layout and until a new login succeeds, the
\* protected routes are not rendered (ProtectedRoute gives the redirect to
\* /login) and no request carries the removed key.
C26_LogoutEndsProtectedRoutes ==
  /\ LoggedOut => auth.pathname = "/login"
  /\ auth.request.removed # NoApiKey =>
        auth.request.header # auth.request.removed

\* The half that holds: a request made after logout does not carry the
\* removed key (it carries no key and is answered 401).
C26_NoRequestCarriesRemovedKey ==
  auth.request.removed # NoApiKey =>
    /\ auth.request.header = NoApiKey
    /\ auth.request.status = 401

\* C27: whenever the chat hook is not loading, the session it holds belongs
\* to the selected agent, and no message is posted to a session of another
\* agent than the one selected.
C27_SessionOfSelectedAgent ==
  /\ (~isLoading(chat) /\ chat.session # NoSession) =>
        chat.session.agent_id = chat.agentId
  /\ \A n \in Invoked(chat) :
        chat.sends[n].enabled => chat.sends[n].session = chat.sends[n].agentId

\* What does hold: the session created for the latest selection is the
\* selected agent's.
C27_LatestSessionOfSelectedAgent ==
  (chat.session # NoSession /\ chat.session.id = chat.selects) =>
    chat.session.agent_id = chat.agentId

MessagesOf(n, id) ==
  {i \in DOMAIN chat.messages :
     chat.messages[i].send = n /\ chat.messages[i].id = id}

AllSettled == \A n \in ChatSends : chat.sends[n].status # "pending"

Shown(n) == n \in Invoked(chat) /\ ~chat.sends[n].reset

SettledListMatchesOutcomes ==
  AllSettled =>
    /\ \A i \in DOMAIN chat.messages : chat.messages[i].id # "temp"
    /\ \A n \in ChatSends :
          /\ (Shown(n) /\ chat.sends[n].status = "succeeded") =>
                /\ Cardinality(MessagesOf(n, "user")) = 1
                /\ Cardinality(MessagesOf(n, "assistant")) = 1
          /\ chat.sends[n].status = "failed" =>
                /\ MessagesOf(n, "user") = {}
                /\ MessagesOf(n, "assistant") = {}

PendingStaysOptimistic ==
  \A n \in ChatSends :
    (Shown(n) /\ chat.sends[n].status = "pending") =>
      Cardinality(MessagesOf(n, "temp")) = 1

C28_SettledListConsistent == SettledListMatchesOutcomes

\* C29: any two sendMessage invocations carry different Idempotency-Key
\* values, so no message is answered with the cached response of an
\* earlier message.
C29_DistinctIdempotencyKeys ==
  /\ \A m, n \in Invoked(chat) :
        m # n => chat.sends[m].key # chat.sends[n].key
  /\ \A n \in ChatSends :
        chat.sends[n].status = "succeeded" => chat.sends[n].answered = n

\* What does hold: invocations made in different milliseconds carry
\* different keys.
C29_DistinctKeysAcrossMilliseconds ==
  [][\A m \in ChatSends :
       (chat.sends[m].status # "idle" /\ chat'.now # chat.now) =>
          chat.sends[m].key # IdempotencyKeyAt(chat'.now)]_vars

Recording == {i \in Recordings : voice.recorder[i] = "recording"}

\* C30: at most one MediaRecorder and one timer are active at any time, and
\* after stopRecording no timer runs and every started recorder has been
\* stopped.
C30_OneRecorderOneTimer ==
  /\ Cardinality(Recording) <= 1
  /\ Cardinality(voice.timers) <= 1
  /\ voice.stopped => (Recording = {} /\ voice.timers = {})

\* What does hold: the recorder and the timer the refs point at are stopped
\* by stopRecording.
C30_ReferencedRecorderStopped ==
  voice.stopped =>
    /\ voice.timerRef = 0
    /\ voice.recorder[voice.mediaRecorderRef] = "inactive"
    /\ ~voice.isRecording

====
